---- MODULE Spec2Model ----
(***************************************************************************)
(* A model of bc_news_update.py: URL/title normalisation, fingerprints,    *)
(* the persistent "seen" table with its schema migration, the in-run merge *)
(* by fingerprint, the age filter, the seen gate and the batched dispatch, *)
(* the retry loop of the network calls and the splitting of long messages. *)
(*                                                                         *)
(* Strings are sequences of characters (titles) or of tokens (urls); a     *)
(* fingerprint, the SHA-256 of "norm_url|normalize_title", is modelled by  *)
(* the pair of the two normalised strings (the digest is injective on the  *)
(* inputs of the model).  Times are integers (hours); None is the absent   *)
(* timestamp.                                                              *)
(***************************************************************************)
EXTENDS Integers, Sequences, FiniteSets, TLC

VARIABLES
    \* ---- the database file seen.sqlite
    schema,        \* layout of table "seen": "none" | "old" | "new"
    seen,          \* rows of the new-layout table: fingerprint -> record
    old_rows,      \* rows of the old-layout table (named seen, later seen_old)
    seen_old,      \* TRUE when a table named seen_old exists
    \* ---- one run of main()
    pc,            \* position of main()
    run,           \* number of the current run (0 before the first)
    clock,         \* wall clock, datetime.now(timezone.utc)
    now_utc,       \* main's now_utc
    items,         \* main's items list
    idx,           \* position of the current loop in its list
    new_items,     \* main's new_items (the delivery list)
    too_old,       \* counters of main
    no_date,
    seen_skip,
    tries,         \* failed attempts of the current request_with_retry
    sink,          \* messages the Sink accepted in this run, in order
    \* ---- history (not program state)
    listed,        \* <<run, fingerprint>> pairs put on a delivery list
    delivered,     \* <<run, fingerprint>> pairs the Sink accepted
    merge_in,      \* the list the merge consumed, until the gate loop starts
    \* ---- harness for the pure functions and the store operations
    h_arg,         \* the inputs drawn
    h_ret          \* what the operation returned ("none" before the call)

vars == <<schema, seen, old_rows, seen_old, pc, run, clock, now_utc, items, idx,
          new_items, too_old, no_date, seen_skip, tries, sink, listed,
          delivered, merge_in, h_arg, h_ret>>

dbVars == <<schema, seen, old_rows, seen_old>>
mainVars == <<pc, run, now_utc, items, idx, new_items, too_old, no_date,
              seen_skip, tries, sink, listed, delivered, merge_in>>
runVars == <<mainVars, clock>>
hVars == <<h_arg, h_ret>>

\* the absent published_utc; it is also where datetime.min sorts an item
None == -1

MAX_AGE_HOURS == 24
MAX_ITEMS_PER_BATCH == 1
max_tries == 3

\* the hour the model's clock starts at: late enough for a cutoff >= 0
Epoch == MAX_AGE_HOURS + 1

-----------------------------------------------------------------------------
(* Strings *)

RECURSIVE LStrip(_)
LStrip(s) ==
    IF s # <<>> /\ Head(s) = " " THEN LStrip(Tail(s)) ELSE s

RECURSIVE RStrip(_)
RStrip(s) ==
    IF s # <<>> /\ s[Len(s)] = " " THEN RStrip(SubSeq(s, 1, Len(s) - 1)) ELSE s

\* str.strip()
Strip(s) == RStrip(LStrip(s))

\* str.lower() on the letters of the model
LowerChar(c) == IF c = "F" THEN "f" ELSE IF c = "B" THEN "b" ELSE c

Lower(s) == [i \in 1..Len(s) |-> LowerChar(s[i])]

\* re.sub(r"\s+", " ", t)
RECURSIVE CollapseSpaces(_)
CollapseSpaces(s) ==
    IF s = <<>> THEN <<>>
    ELSE IF Head(s) = " " /\ Len(s) > 1 /\ s[2] = " " THEN CollapseSpaces(Tail(s))
    ELSE <<Head(s)>> \o CollapseSpaces(Tail(s))

\* the glyphs of the character class in normalize_title; the model's titles
\* use the straight apostrophe and the straight double quote
QuoteGlyphs == {"'", "\""}

\* re.sub(r"[...]+", "", t)
StripQuotes(s) == SelectSeq(s, LAMBDA c : c \notin QuoteGlyphs)

normalize_title(t) ==
    IF t = <<>> THEN <<>>
    ELSE StripQuotes(CollapseSpaces(Lower(Strip(t))))

-----------------------------------------------------------------------------
(* URLs: sequences of tokens.  "#", "?" and "&" are the delimiters; every  *)
(* other token is an atom: a scheme://host/path text, a "key=value" pair   *)
(* of the query, a fragment text, or a blank " ".                          *)

TRACKING_PARAMS ==
    {"utm_source", "utm_medium", "utm_campaign", "utm_term", "utm_content",
     "fbclid", "gclid"}

\* the key of a "key=value" token (parse_qsl)
KeyOf(tok) ==
    CASE tok = "utm_source=x" -> "utm_source"
      [] tok = "fbclid=y" -> "fbclid"
      [] tok = "id=1" -> "id"
      [] tok = "p=2" -> "p"
      [] OTHER -> tok

\* index of the first occurrence of d in s, or 0
RECURSIVE IndexOf(_, _, _)
IndexOf(s, d, i) ==
    IF i > Len(s) THEN 0 ELSE IF s[i] = d THEN i ELSE IndexOf(s, d, i + 1)

\* u.split(d, 1)[0]
Before(s, d) ==
    LET i == IndexOf(s, d, 1) IN IF i = 0 THEN s ELSE SubSeq(s, 1, i - 1)

\* the text after the first d, empty when there is none
After(s, d) ==
    LET i == IndexOf(s, d, 1) IN IF i = 0 THEN <<>> ELSE SubSeq(s, i + 1, Len(s))

\* parse_qsl(query, keep_blank_values=True): the pairs between "&"
parse_qsl(q) == SelectSeq(q, LAMBDA tok : tok # "&")

\* urlencode(pairs)
RECURSIVE urlencode(_)
urlencode(ps) ==
    IF ps = <<>> THEN <<>>
    ELSE IF Len(ps) = 1 THEN ps
    ELSE <<Head(ps), "&">> \o urlencode(Tail(ps))

\* urlunsplit((scheme, netloc, path, query, ""))
urlunsplit(base, query) ==
    IF query = <<>> THEN base ELSE base \o <<"?">> \o query

norm_url(u) ==
    IF u = <<>> THEN <<>>
    ELSE LET s == Strip(Before(u, "#"))
             q == SelectSeq(parse_qsl(After(s, "?")),
                            LAMBDA tok : KeyOf(tok) \notin TRACKING_PARAMS)
         IN urlunsplit(Before(s, "?"), urlencode(q))

\* sha256(f"{norm_url(url)}|{normalize_title(title)}")
make_fingerprint(url, title) == <<norm_url(url), normalize_title(title)>>

-----------------------------------------------------------------------------
(* The seen table *)

\* INSERT OR IGNORE INTO seen: the row is added unless its key exists
InsertOrIgnore(tab, fp, rec) ==
    IF fp \in DOMAIN tab THEN tab
    ELSE [k \in DOMAIN tab \cup {fp} |-> IF k = fp THEN rec ELSE tab[k]]

\* INSERT OR REPLACE INTO seen
InsertOrReplace(tab, fp, rec) ==
    [k \in DOMAIN tab \cup {fp} |-> IF k = fp THEN rec ELSE tab[k]]

\* the insert of a table whose url column is unique too
InsertUniqueUrl(tab, fp, rec) ==
    IF \E k \in DOMAIN tab : tab[k].url = rec.url THEN tab
    ELSE InsertOrIgnore(tab, fp, rec)

\* a migration that stamps the rows with the time of the migration
RECURSIVE MigrateRowsNow(_, _)
MigrateRowsNow(rows, tab) ==
    IF rows = <<>> THEN tab
    ELSE MigrateRowsNow(Tail(rows),
                        InsertOrIgnore(tab, make_fingerprint(Head(rows).url, <<>>),
                                       [url |-> Head(rows).url,
                                        title |-> <<>>,
                                        first_seen_utc |-> clock]))

\* the loop of init_db over the rows of seen_old, in the order read
RECURSIVE MigrateRows(_, _)
MigrateRows(rows, tab) ==
    IF rows = <<>> THEN tab
    ELSE MigrateRows(Tail(rows),
                     InsertOrIgnore(tab, make_fingerprint(Head(rows).url, <<>>),
                                    [url |-> Head(rows).url,
                                     title |-> <<>>,
                                     first_seen_utc |-> Head(rows).first_seen_utc]))

\* init_db that creates the table anew whatever it finds
init_db_recreate ==
    /\ schema' = "new"
    /\ seen' = <<>>
    /\ UNCHANGED <<old_rows, seen_old>>

init_db ==
    IF schema = "none"
    THEN \* CREATE TABLE IF NOT EXISTS seen (fingerprint ...); commit
         /\ schema' = "new"
         /\ seen' = <<>>
         /\ UNCHANGED <<old_rows, seen_old>>
    ELSE IF schema = "new"
    THEN \* "fingerprint" in cols: return
         UNCHANGED dbVars
    ELSE \* RENAME TO seen_old; CREATE TABLE seen; INSERT OR IGNORE each row
         \* (no table seen_old exists yet wherever the old layout is found)
         /\ schema' = "new"
         /\ seen_old' = TRUE
         /\ seen' = MigrateRows(old_rows, <<>>)
         /\ UNCHANGED old_rows

\* SELECT 1 FROM seen WHERE fingerprint = ?
is_seen(fingerprint) == fingerprint \in DOMAIN seen

\* mark_seen without con.commit(): the row is gone when the run ends
mark_seen_no_commit(fingerprint, url, title) ==
    UNCHANGED dbVars

mark_seen_replace(fingerprint, url, title) ==
    /\ seen' = InsertOrReplace(seen, fingerprint,
                               [url |-> url, title |-> title, first_seen_utc |-> clock])
    /\ UNCHANGED <<schema, old_rows, seen_old>>

mark_seen_unique_url(fingerprint, url, title) ==
    /\ seen' = InsertUniqueUrl(seen, fingerprint,
                               [url |-> url, title |-> title, first_seen_utc |-> clock])
    /\ UNCHANGED <<schema, old_rows, seen_old>>

mark_seen(fingerprint, url, title) ==
    /\ seen' = InsertOrIgnore(seen, fingerprint,
                              [url |-> url, title |-> title, first_seen_utc |-> clock])
    /\ UNCHANGED <<schema, old_rows, seen_old>>

-----------------------------------------------------------------------------
(* The merge by fingerprint and the sort of main() *)

\* fp = make_fingerprint(it.get("url", ""), it.get("title", ""))
Fp(it) == make_fingerprint(it.url, it.title)

\* one pass of the merge loop that never replaces a representative
MergeStepKeepFirst(reps, it) ==
    IF it.url = <<>> /\ it.title = <<>> THEN reps
    ELSE IF \E j \in 1..Len(reps) : Fp(reps[j]) = Fp(it) THEN reps
    ELSE Append(reps, it)

\* one pass of the merge loop that compares with >= instead of >
MergeStepPreferLast(reps, it) ==
    IF it.url = <<>> /\ it.title = <<>> THEN reps
    ELSE LET js == {j \in 1..Len(reps) : Fp(reps[j]) = Fp(it)}
         IN IF js = {} THEN Append(reps, it)
            ELSE LET j == CHOOSE k \in js : TRUE
                     old_pub == reps[j].published_utc
                     new_pub == it.published_utc
                 IN IF old_pub = None /\ new_pub # None
                    THEN [reps EXCEPT ![j] = it]
                    ELSE IF old_pub # None /\ new_pub # None /\ new_pub >= old_pub
                    THEN [reps EXCEPT ![j] = it]
                    ELSE reps

\* one pass of the merge loop that groups nothing
MergeStepNoGroup(reps, it) ==
    IF it.url = <<>> /\ it.title = <<>> THEN reps ELSE Append(reps, it)

\* one pass of the merge loop: reps are the values of by_fp, in the order
\* their keys were inserted
MergeStep(reps, it) ==
    IF it.url = <<>> /\ it.title = <<>> THEN reps
    ELSE LET js == {j \in 1..Len(reps) : Fp(reps[j]) = Fp(it)}
         IN IF js = {} THEN Append(reps, it)
            ELSE LET j == CHOOSE k \in js : TRUE
                     old_pub == reps[j].published_utc
                     new_pub == it.published_utc
                 IN IF old_pub = None /\ new_pub # None
                    THEN [reps EXCEPT ![j] = it]
                    ELSE IF old_pub # None /\ new_pub # None /\ new_pub > old_pub
                    THEN [reps EXCEPT ![j] = it]
                    ELSE reps

RECURSIVE MergeFold(_, _)
MergeFold(its, reps) ==
    IF its = <<>> THEN reps ELSE MergeFold(Tail(its), MergeStep(reps, Head(its)))

\* items = list(by_fp.values())
MergeByFp(its) == MergeFold(its, <<>>)

\* key=lambda x: x.get("published_utc") or datetime.min
SortKey(it) == it.published_utc

\* the place of it in a list sorted latest first: behind every item that is
\* not older (sorted() is stable, also with reverse=True)
RECURSIVE InsertLatestFirst(_, _)
InsertLatestFirst(sorted, it) ==
    IF sorted = <<>> THEN <<it>>
    ELSE IF SortKey(Head(sorted)) >= SortKey(it)
    THEN <<Head(sorted)>> \o InsertLatestFirst(Tail(sorted), it)
    ELSE <<it>> \o sorted

RECURSIVE SortFold(_, _)
SortFold(its, sorted) ==
    IF its = <<>> THEN sorted
    ELSE SortFold(Tail(its), InsertLatestFirst(sorted, Head(its)))

\* sorted(items, key=..., reverse=True)
SortLatestFirst(its) == SortFold(its, <<>>)

-----------------------------------------------------------------------------
(* The values every variable has while its part of the model is not used *)

NoRet == [op |-> "none"]

DbIdle ==
    /\ schema = "none"
    /\ seen = <<>>
    /\ old_rows = <<>>
    /\ seen_old = FALSE

RunIdle ==
    /\ pc = "idle"
    /\ run = 0
    /\ now_utc = 0
    /\ items = <<>>
    /\ idx = 0
    /\ new_items = <<>>
    /\ too_old = 0
    /\ no_date = 0
    /\ seen_skip = 0
    /\ tries = 0
    /\ sink = <<>>
    /\ listed = {}
    /\ delivered = {}
    /\ merge_in = <<>>

-----------------------------------------------------------------------------
(* SpecNorm: norm_url, normalize_title and make_fingerprint applied to     *)
(* pairs of inputs that differ only textually.                             *)

MaxTitleLen == 3
MaxQuery == 2

TitleChars == {"f", "F", " ", "'"}

RECURSIVE SeqsUpTo(_, _)
SeqsUpTo(S, n) ==
    IF n = 0 THEN {<<>>}
    ELSE LET shorter == SeqsUpTo(S, n - 1)
         IN shorter \cup {Append(s, c) : s \in shorter, c \in S}

Titles == SeqsUpTo(TitleChars, MaxTitleLen)

\* the text of a title with case, blanks and quote glyphs taken out: its
\* lower-case words separated by one blank
CanonTitle(t) == CollapseSpaces(Strip(StripQuotes(Lower(t))))

QueryTokens == {"utm_source=x", "fbclid=y", "id=1"}

Queries == SeqsUpTo(QueryTokens, MaxQuery)

\* the url text: base, "?" and the pairs joined by "&", "#" and a fragment
RenderUrl(base, ps, frag) ==
    (IF ps = <<>> THEN <<base>> ELSE <<base, "?">> \o urlencode(ps))
        \o (IF frag THEN <<"#", "top">> ELSE <<>>)

\* the pairs of a query that are not tracking parameters
KeptPairs(ps) == SelectSeq(ps, LAMBDA tok : KeyOf(tok) \notin TRACKING_PARAMS)

\* The second input is the plain variant of the first: the same url without
\* its tracking pairs and fragment, the same title in lower case, without
\* quote glyphs, its words separated by one blank.  Two variants of one
\* text are both variants of its plain form.
InitNorm ==
    /\ DbIdle
    /\ RunIdle
    /\ clock = 0
    /\ h_ret = NoRet
    /\ \E base \in {"https://ex.com/a", "https://ex.com/b"}, ps \in Queries,
          f \in BOOLEAN, t \in Titles :
          h_arg = [kind |-> "norm",
                   url1 |-> RenderUrl(base, ps, f),
                   url2 |-> RenderUrl(base, KeptPairs(ps), FALSE),
                   title1 |-> t,
                   title2 |-> CanonTitle(t)]

\* make_fingerprint on both inputs
ApplyFingerprint ==
    /\ h_arg.kind = "norm"
    /\ h_ret.op = "none"
    /\ h_ret' = [op |-> "make_fingerprint",
                 fp1 |-> make_fingerprint(h_arg.url1, h_arg.title1),
                 fp2 |-> make_fingerprint(h_arg.url2, h_arg.title2)]
    /\ UNCHANGED <<dbVars, runVars, h_arg>>

\* the normalisers applied once and twice to the first input
ApplyNormalizeTwice ==
    /\ h_arg.kind = "norm"
    /\ h_ret.op = "none"
    /\ h_ret' = [op |-> "normalize",
                 u |-> norm_url(h_arg.url1),
                 uu |-> norm_url(norm_url(h_arg.url1)),
                 t |-> normalize_title(h_arg.title1),
                 tt |-> normalize_title(normalize_title(h_arg.title1))]
    /\ UNCHANGED <<dbVars, runVars, h_arg>>

NextNorm == ApplyFingerprint \/ ApplyNormalizeTwice

SpecNorm == InitNorm /\ [][NextNorm]_vars

\* C7: inputs that differ only by tracking parameters or a fragment in the
\* url, and only by case, blanks or quote glyphs in the title, have the same
\* fingerprint, and normalising a normalised url or title changes nothing.
C7_FingerprintOfVariants ==
    /\ h_ret.op = "make_fingerprint" => h_ret.fp1 = h_ret.fp2
    /\ h_ret.op = "normalize" => h_ret.uu = h_ret.u /\ h_ret.tt = h_ret.t

\* the url half of C7 alone
NormUrlOfVariants ==
    /\ h_ret.op = "make_fingerprint" => h_ret.fp1[1] = h_ret.fp2[1]
    /\ h_ret.op = "normalize" => h_ret.uu = h_ret.u

-----------------------------------------------------------------------------
(* SpecStore: init_db and mark_seen called in any order on a database that *)
(* is absent or holds the old layout.                                      *)

MaxOldRows == 2
MaxMarks == 2
MaxClock == 1

UrlA == RenderUrl("https://ex.com/a", <<>>, FALSE)
UrlATracked == RenderUrl("https://ex.com/a", <<"utm_source=x">>, FALSE)
UrlB == RenderUrl("https://ex.com/b", <<>>, FALSE)

StoreUrls == {UrlA, UrlATracked, UrlB}
StoreTitles == {<<>>, <<"F">>}
StoreFps == {make_fingerprint(u, t) : u \in StoreUrls, t \in StoreTitles}

\* the rows an old-layout table can hold: url is its primary key
OldRows ==
    [url : StoreUrls, first_seen_utc : 0..1]

OldTables ==
    {rows \in SeqsUpTo(OldRows, MaxOldRows) :
        \A i, j \in 1..Len(rows) : i # j => rows[i].url # rows[j].url}

InitStore ==
    /\ RunIdle
    /\ clock = Epoch
    /\ seen = <<>>
    /\ seen_old = FALSE
    /\ \/ schema = "none" /\ old_rows = <<>>
       \/ schema = "old" /\ old_rows \in OldTables
    /\ h_arg = [kind |-> "store", marked |-> {}, calls |-> 0]
    /\ h_ret = NoRet

StoreInitDb ==
    /\ h_arg.kind = "store"
    /\ init_db
    /\ h_ret' = [op |-> "init_db", before |-> schema]
    /\ UNCHANGED <<runVars, h_arg>>

StoreMarkSeen ==
    /\ h_arg.kind = "store"
    /\ schema = "new"
    /\ h_arg.calls < MaxMarks
    /\ \E u \in StoreUrls, t \in StoreTitles :
          LET fp == make_fingerprint(u, t)
          IN /\ mark_seen(fp, u, t)
             /\ h_ret' = [op |-> "mark_seen", fp |-> fp, url |-> u, title |-> t,
                          was_seen |-> is_seen(fp)]
             /\ h_arg' = [h_arg EXCEPT !.marked = @ \cup {fp}, !.calls = @ + 1]
    /\ UNCHANGED runVars

\* time passes: an hour of the clock
Tick ==
    /\ clock < Epoch + MaxClock
    /\ clock' = clock + 1
    /\ UNCHANGED <<dbVars, mainVars, hVars>>

NextStore == StoreInitDb \/ StoreMarkSeen \/ Tick

SpecStore == InitStore /\ [][NextStore]_vars

\* the fingerprints the migration inserted
MigratedFps ==
    IF seen_old
    THEN {make_fingerprint(old_rows[i].url, <<>>) : i \in 1..Len(old_rows)}
    ELSE {}

\* C3: on an initialized store is_seen(fp) is false until mark_seen(fp, ...)
\* is called (or the migration inserted fp), true after the first call and
\* after a redundant one, and a mark_seen(fp, ...) changes is_seen of no
\* other fingerprint.
C3_SeenIffMarked ==
    /\ [](schema = "new" =>
            \A fp \in StoreFps :
                is_seen(fp) <=> (fp \in h_arg.marked \/ fp \in MigratedFps))
    /\ [][h_arg'.calls = h_arg.calls + 1 =>
            \A fp \in StoreFps \ {h_ret'.fp} :
                (fp \in DOMAIN seen') <=> (fp \in DOMAIN seen)]_vars

\* a second, redundant mark_seen of a fingerprint while another is unseen
C3_Witness ==
    /\ h_ret.op = "mark_seen"
    /\ h_ret.was_seen
    /\ h_ret.fp \notin MigratedFps
    /\ is_seen(h_ret.fp)
    /\ \E fp \in StoreFps : ~is_seen(fp)

\* C4: on a current-layout store no step removes or changes a record: the
\* table only grows, and a redundant mark_seen leaves the record as it was.
C4_RecordsWriteOnce ==
    [][schema = "new" =>
        /\ schema' = "new"
        /\ \A fp \in DOMAIN seen : fp \in DOMAIN seen' /\ seen'[fp] = seen[fp]]_vars

\* a redundant mark_seen with another url text, at a later time
C4_Witness ==
    /\ h_ret.op = "mark_seen"
    /\ h_ret.was_seen
    /\ seen[h_ret.fp].url # h_ret.url
    /\ seen[h_ret.fp].first_seen_utc # clock

\* the first row of the old table, in the order read, with fingerprint fp
RECURSIVE FirstRowOf(_, _)
FirstRowOf(rows, fp) ==
    IF make_fingerprint(Head(rows).url, <<>>) = fp THEN Head(rows)
    ELSE FirstRowOf(Tail(rows), fp)

\* C5 as stated: after the migration every old record has a new record with
\* its fingerprint, an empty title and the old record's own first_seen_utc.
C5_EveryOldRecordKept ==
    (seen_old /\ schema = "new") =>
        \A i \in 1..Len(old_rows) :
            LET fp == make_fingerprint(old_rows[i].url, <<>>)
            IN /\ fp \in DOMAIN seen
               /\ seen[fp].title = <<>>
               /\ seen[fp].first_seen_utc = old_rows[i].first_seen_utc

\* C5 amended: after the migration every old record has a new record with
\* its fingerprint and an empty title; the record's url and first_seen_utc
\* are those of the first old record read with that fingerprint.
C5_MigrationKeepsFirstOfEach ==
    (seen_old /\ schema = "new") =>
        \A i \in 1..Len(old_rows) :
            LET fp == make_fingerprint(old_rows[i].url, <<>>)
                first == FirstRowOf(old_rows, fp)
            IN /\ fp \in DOMAIN seen
               /\ seen[fp].title = <<>>
               /\ seen[fp].url = first.url
               /\ seen[fp].first_seen_utc = first.first_seen_utc

\* a migrated table of two old records with one fingerprint and two times
C5_Witness ==
    /\ seen_old
    /\ schema = "new"
    /\ h_ret.op = "init_db"
    /\ \E i, j \in 1..Len(old_rows) :
          /\ i < j
          /\ make_fingerprint(old_rows[i].url, <<>>) = make_fingerprint(old_rows[j].url, <<>>)
          /\ old_rows[i].first_seen_utc # old_rows[j].first_seen_utc

\* C6: init_db on a current-layout store changes nothing of the database,
\* and every init_db leaves the current layout, so that a second init_db in
\* a row leaves what the first left.
C6_InitDbIdempotent ==
    [][StoreInitDb => schema' = "new" /\ (schema = "new" => UNCHANGED dbVars)]_vars

\* init_db called on a migrated store that holds records
C6_Witness ==
    /\ h_ret.op = "init_db"
    /\ h_ret.before = "new"
    /\ seen_old
    /\ h_arg.marked # {}
    /\ MigratedFps # {}

-----------------------------------------------------------------------------
(* SpecMerge: the merge loop of main() applied to the lists the sources   *)
(* may supply, in any order.                                               *)

MaxMergeLen == 3

Item(source, title, url, pub) ==
    [source |-> source, title |-> title, url |-> url, published_utc |-> pub]

\* six items of one fingerprint (the titles differ by case), two of
\* another, and one without url and title
MergeItems ==
    {Item("GoogleNews", t, UrlA, pub) : t \in {<<"F">>, <<"f">>}, pub \in {None, 1, 2}}
        \cup {Item("NewsAPI", <<"F">>, UrlB, pub) : pub \in {None, 1}}
        \cup {Item("NewsAPI", <<>>, <<>>, 1)}

InitMerge ==
    /\ DbIdle
    /\ RunIdle
    /\ clock = Epoch
    /\ h_arg \in [kind : {"merge"}, items : SeqsUpTo(MergeItems, MaxMergeLen)]
    /\ h_ret = NoRet

ApplyMerge ==
    /\ h_arg.kind = "merge"
    /\ h_ret.op = "none"
    /\ h_ret' = [op |-> "merge", out |-> MergeByFp(h_arg.items)]
    /\ UNCHANGED <<dbVars, runVars, h_arg>>

NextMerge == ApplyMerge

SpecMerge == InitMerge /\ [][NextMerge]_vars

\* the places of the input whose item has fingerprint fp and is not dropped
Members(its, fp) ==
    {i \in 1..Len(its) :
        /\ ~(its[i].url = <<>> /\ its[i].title = <<>>)
        /\ Fp(its[i]) = fp}

\* the latest timestamp of a group, None when no member is dated
MaxPub(its, group) ==
    CHOOSE p \in {its[i].published_utc : i \in group} :
        \A i \in group : its[i].published_utc <= p

\* C8: the representative of every group of one fingerprint carries the
\* latest timestamp of the group (a timestamp whenever a member has one),
\* and it is the first member, in the order supplied, that carries it: the
\* first member of all when none is dated or all are dated alike.
C8_MergeKeepsLatest ==
    h_ret.op = "merge" =>
        \A k \in 1..Len(h_ret.out) :
            LET group == Members(h_arg.items, Fp(h_ret.out[k]))
                best == MaxPub(h_arg.items, group)
                first == CHOOSE i \in group :
                            /\ h_arg.items[i].published_utc = best
                            /\ \A j \in group :
                                  h_arg.items[j].published_utc = best => i <= j
            IN /\ group # {}
               /\ h_ret.out[k].published_utc = best
               /\ ((\E i \in group : h_arg.items[i].published_utc # None)
                      => h_ret.out[k].published_utc # None)
               /\ h_ret.out[k] = h_arg.items[first]

\* a group supplied as undated, dated 2, dated 1, merged into the item dated 2
C8_Witness ==
    /\ h_ret.op = "merge"
    /\ Len(h_arg.items) = 3
    /\ Len(h_ret.out) = 1
    /\ h_arg.items[1].published_utc = None
    /\ h_arg.items[2].published_utc = 2
    /\ h_arg.items[3].published_utc = 1
    /\ h_ret.out[1] = h_arg.items[2]

-----------------------------------------------------------------------------
(* Spec: runs of main(), one after the other, on one database file *)

MaxRuns == 2
MaxItems == 2

\* what a feed entry or an article may carry
RawTitles == {<<>>, <<"F", " ">>}
PubTimes == {None, 1, 2}
RawEntries ==
    [title : RawTitles, url : {UrlATracked}, published_utc : PubTimes]
        \cup {[title |-> <<>>, url |-> <<>>, published_utc |-> 1]}

\* the items an adapter builds: the title stripped, the url through norm_url
\* (resolve_final_url returns norm_url of the address it ends at)
Feed(source, raws) ==
    [i \in 1..Len(raws) |->
        Item(source, Strip(raws[i].title), norm_url(raws[i].url),
             raws[i].published_utc)]

InitRun ==
    /\ RunIdle
    /\ clock = Epoch
    /\ seen = <<>>
    /\ seen_old = FALSE
    /\ \/ schema = "none" /\ old_rows = <<>>
       \/ /\ schema = "old"
          /\ old_rows = <<[url |-> UrlATracked, first_seen_utc |-> Epoch - 1]>>
    /\ h_arg = [kind |-> "run"]
    /\ h_ret = NoRet

\* main() up to the fetches: connect, init_db, now_utc.  The run starts no
\* earlier than the last one ended; the clock counts hours and a run takes
\* less, so the hour does not turn during a run.
StartRun ==
    /\ h_arg.kind = "run"
    /\ pc \in {"idle", "done", "failed"}
    /\ run < MaxRuns
    /\ init_db
    /\ run' = run + 1
    /\ \E t \in clock..(Epoch + MaxClock) :
          /\ clock' = t
          /\ now_utc' = t
    /\ items' = <<>>
    /\ idx' = 0
    /\ new_items' = <<>>
    /\ too_old' = 0
    /\ no_date' = 0
    /\ seen_skip' = 0
    /\ tries' = 0
    /\ sink' = <<>>
    /\ pc' = "fetch_rss"
    /\ UNCHANGED <<listed, delivered, merge_in, hVars>>

\* con = sqlite3.connect(DB_FILE) raises (the file cannot be opened): the
\* statement stands before main's try, so the run ends with the error.
\* (run numbers the runs that got past init_db.)
ConnectRaises ==
    /\ h_arg.kind = "run"
    /\ pc \in {"idle", "done", "failed"}
    /\ now_utc' = 0
    /\ items' = <<>>
    /\ idx' = 0
    /\ new_items' = <<>>
    /\ too_old' = 0
    /\ no_date' = 0
    /\ seen_skip' = 0
    /\ tries' = 0
    /\ sink' = <<>>
    /\ pc' = "failed"
    /\ UNCHANGED <<dbVars, run, clock, listed, delivered, merge_in, hVars>>

\* init_db(con) raises at its first statement (the file is no database, the
\* disk cannot be read): nothing of the database is changed
InitDbRaises ==
    /\ h_arg.kind = "run"
    /\ pc \in {"idle", "done", "failed"}
    /\ now_utc' = 0
    /\ items' = <<>>
    /\ idx' = 0
    /\ new_items' = <<>>
    /\ too_old' = 0
    /\ no_date' = 0
    /\ seen_skip' = 0
    /\ tries' = 0
    /\ sink' = <<>>
    /\ pc' = "except"
    /\ UNCHANGED <<dbVars, run, clock, listed, delivered, merge_in, hVars>>

\* items += fetch_google_news_rss(session, QUERY_RSS)
FetchGoogle ==
    /\ pc = "fetch_rss"
    /\ \E raws \in SeqsUpTo(RawEntries, MaxItems) :
          items' = items \o Feed("GoogleNews", raws)
    /\ pc' = "fetch_newsapi"
    /\ UNCHANGED <<dbVars, run, clock, now_utc, idx, new_items, too_old, no_date,
                   seen_skip, tries, sink, listed, delivered, merge_in, hVars>>

\* items += fetch_newsapi(session, QUERY_NEWSAPI, cutoff): the articles, or
\* nothing (no key, a body that is not JSON, a status other than "ok")
FetchNewsApi ==
    /\ pc = "fetch_newsapi"
    /\ \E raws \in SeqsUpTo(RawEntries, MaxItems - Len(items)) :
          items' = items \o Feed("NewsAPI", raws)
    /\ pc' = "merge"
    /\ UNCHANGED <<dbVars, run, clock, now_utc, idx, new_items, too_old, no_date,
                   seen_skip, tries, sink, listed, delivered, merge_in, hVars>>

\* request_with_retry of fetch_newsapi raises after its last attempt
FetchNewsApiRaises ==
    /\ pc = "fetch_newsapi"
    /\ pc' = "except"
    /\ tries' = 0
    /\ UNCHANGED <<dbVars, run, clock, now_utc, items, idx, new_items, too_old,
                   no_date, seen_skip, sink, listed, delivered, merge_in, hVars>>

\* the merge by fingerprint and the sort, latest first
MergeAndSort ==
    /\ pc = "merge"
    /\ items' = SortLatestFirst(MergeByFp(items))
    /\ merge_in' = items
    /\ idx' = 1
    /\ pc' = "gate"
    /\ UNCHANGED <<dbVars, run, clock, now_utc, new_items, too_old, no_date,
                   seen_skip, tries, sink, listed, delivered, hVars>>

cutoff == now_utc - MAX_AGE_HOURS

\* the loop body that tells too old with <= instead of <
GateStepCutoffInclusive ==
    /\ pc = "gate"
    /\ idx <= Len(items)
    /\ LET it == items[idx]
           pub == it.published_utc
           fp == make_fingerprint(it.url, it.title)
       IN IF pub = None
          THEN /\ no_date' = no_date + 1
               /\ UNCHANGED <<dbVars, too_old, seen_skip, new_items, listed>>
          ELSE IF pub <= cutoff
          THEN /\ too_old' = too_old + 1
               /\ UNCHANGED <<dbVars, no_date, seen_skip, new_items, listed>>
          ELSE IF is_seen(fp)
          THEN /\ seen_skip' = seen_skip + 1
               /\ UNCHANGED <<dbVars, no_date, too_old, new_items, listed>>
          ELSE /\ mark_seen(fp, it.url, it.title)
               /\ new_items' = Append(new_items, it)
               /\ listed' = listed \cup {<<run, fp>>}
               /\ UNCHANGED <<no_date, too_old, seen_skip>>
    /\ idx' = idx + 1
    /\ merge_in' = <<>>
    /\ UNCHANGED <<pc, run, clock, now_utc, items, tries, sink, delivered, hVars>>

\* the loop body that leaves the marking for later
GateStepNoMark ==
    /\ pc = "gate"
    /\ idx <= Len(items)
    /\ LET it == items[idx]
           pub == it.published_utc
           fp == make_fingerprint(it.url, it.title)
       IN IF pub = None
          THEN /\ no_date' = no_date + 1
               /\ UNCHANGED <<dbVars, too_old, seen_skip, new_items, listed>>
          ELSE IF pub < cutoff
          THEN /\ too_old' = too_old + 1
               /\ UNCHANGED <<dbVars, no_date, seen_skip, new_items, listed>>
          ELSE IF is_seen(fp)
          THEN /\ seen_skip' = seen_skip + 1
               /\ UNCHANGED <<dbVars, no_date, too_old, new_items, listed>>
          ELSE /\ new_items' = Append(new_items, it)
               /\ listed' = listed \cup {<<run, fp>>}
               /\ UNCHANGED <<dbVars, no_date, too_old, seen_skip>>
    /\ idx' = idx + 1
    /\ merge_in' = <<>>
    /\ UNCHANGED <<pc, run, clock, now_utc, items, tries, sink, delivered, hVars>>

\* the loop body that skips a seen item without counting it
GateStepNoSeenCount ==
    /\ pc = "gate"
    /\ idx <= Len(items)
    /\ LET it == items[idx]
           pub == it.published_utc
           fp == make_fingerprint(it.url, it.title)
       IN IF pub = None
          THEN /\ no_date' = no_date + 1
               /\ UNCHANGED <<dbVars, too_old, seen_skip, new_items, listed>>
          ELSE IF pub < cutoff
          THEN /\ too_old' = too_old + 1
               /\ UNCHANGED <<dbVars, no_date, seen_skip, new_items, listed>>
          ELSE IF is_seen(fp)
          THEN UNCHANGED <<dbVars, no_date, too_old, seen_skip, new_items, listed>>
          ELSE /\ mark_seen(fp, it.url, it.title)
               /\ new_items' = Append(new_items, it)
               /\ listed' = listed \cup {<<run, fp>>}
               /\ UNCHANGED <<no_date, too_old, seen_skip>>
    /\ idx' = idx + 1
    /\ merge_in' = <<>>
    /\ UNCHANGED <<pc, run, clock, now_utc, items, tries, sink, delivered, hVars>>

\* one pass of "for it in items": the age filter, then the seen gate
GateStep ==
    /\ pc = "gate"
    /\ idx <= Len(items)
    /\ LET it == items[idx]
           pub == it.published_utc
           fp == make_fingerprint(it.url, it.title)
       IN IF pub = None
          THEN /\ no_date' = no_date + 1
               /\ UNCHANGED <<dbVars, too_old, seen_skip, new_items, listed>>
          ELSE IF pub < cutoff
          THEN /\ too_old' = too_old + 1
               /\ UNCHANGED <<dbVars, no_date, seen_skip, new_items, listed>>
          ELSE IF is_seen(fp)
          THEN /\ seen_skip' = seen_skip + 1
               /\ UNCHANGED <<dbVars, no_date, too_old, new_items, listed>>
          ELSE /\ mark_seen(fp, it.url, it.title)
               /\ new_items' = Append(new_items, it)
               /\ listed' = listed \cup {<<run, fp>>}
               /\ UNCHANGED <<no_date, too_old, seen_skip>>
    /\ idx' = idx + 1
    /\ merge_in' = <<>>
    /\ UNCHANGED <<pc, run, clock, now_utc, items, tries, sink, delivered, hVars>>

\* is_seen or mark_seen of the pass raises (the insert of a mark_seen that
\* raises is not committed): only an item that passed the age filter gets
\* that far.  The handler of main reads none of the lists and counters of
\* the try block, so they are dropped with the raise.
GateStorageRaises ==
    /\ pc = "gate"
    /\ idx <= Len(items)
    /\ items[idx].published_utc # None
    /\ items[idx].published_utc >= cutoff
    /\ items' = <<>>
    /\ idx' = 0
    /\ new_items' = <<>>
    /\ too_old' = 0
    /\ no_date' = 0
    /\ seen_skip' = 0
    /\ tries' = 0
    /\ merge_in' = <<>>
    /\ pc' = "except"
    /\ UNCHANGED <<dbVars, run, clock, now_utc, sink, listed, delivered, hVars>>

\* the loop is over: send_updates_batched(session, new_items), which
\* returns at once when the list is empty
GateDone ==
    /\ pc = "gate"
    /\ idx > Len(items)
    /\ idx' = 0
    /\ tries' = 0
    /\ pc' = IF new_items = <<>> THEN "heartbeat" ELSE "dispatch"
    /\ merge_in' = <<>>
    /\ UNCHANGED <<dbVars, run, clock, now_utc, items, new_items, too_old, no_date,
                   seen_skip, sink, listed, delivered, hVars>>

Min(a, b) == IF a <= b THEN a ELSE b

\* the batch send_updates_batched hands to _send_one_batch after idx items
Batch == SubSeq(new_items, idx + 1, Min(idx + MAX_ITEMS_PER_BATCH, Len(new_items)))

\* request_with_retry after one more failed attempt: the next attempt, or
\* raise last_err once max_tries attempts failed
AttemptFails(handler) ==
    IF tries + 1 < max_tries
    THEN /\ tries' = tries + 1
         /\ pc' = pc
    ELSE /\ tries' = 0
         /\ pc' = handler

\* telegram_send of a batch: an attempt gets a response.  The text of a
\* batch fits one part of chunk_text, and the bot token and chat id are set.
SendBatchOk ==
    /\ pc = "dispatch"
    /\ sink' = Append(sink, [kind |-> "update", batch |-> Batch])
    /\ delivered' = delivered \cup {<<run, Fp(Batch[i])>> : i \in 1..Len(Batch)}
    /\ idx' = idx + Len(Batch)
    /\ tries' = 0
    /\ pc' = IF idx + Len(Batch) >= Len(new_items) THEN "heartbeat" ELSE "dispatch"
    /\ UNCHANGED <<dbVars, run, clock, now_utc, items, new_items, too_old, no_date,
                   seen_skip, listed, merge_in, hVars>>

\* telegram_send of a batch: an attempt raises
SendBatchFails ==
    /\ pc = "dispatch"
    /\ AttemptFails("except")
    /\ UNCHANGED <<dbVars, run, clock, now_utc, items, idx, new_items, too_old,
                   no_date, seen_skip, sink, listed, delivered, merge_in, hVars>>

\* the text of the heartbeat
Heartbeat ==
    [kind |-> "heartbeat", new |-> Len(new_items), seen |-> seen_skip,
     old |-> too_old, no_date |-> no_date, fetched |-> Len(items)]

HeartbeatOk ==
    /\ pc = "heartbeat"
    /\ sink' = Append(sink, Heartbeat)
    /\ tries' = 0
    /\ pc' = "done"
    /\ UNCHANGED <<dbVars, run, clock, now_utc, items, idx, new_items, too_old,
                   no_date, seen_skip, listed, delivered, merge_in, hVars>>

HeartbeatFails ==
    /\ pc = "heartbeat"
    /\ AttemptFails("except")
    /\ UNCHANGED <<dbVars, run, clock, now_utc, items, idx, new_items, too_old,
                   no_date, seen_skip, sink, listed, delivered, merge_in, hVars>>

\* except Exception: telegram_send(session, err), then raise
NoticeOk ==
    /\ pc = "except"
    /\ sink' = Append(sink, [kind |-> "failed"])
    /\ tries' = 0
    /\ pc' = "failed"
    /\ UNCHANGED <<dbVars, run, clock, now_utc, items, idx, new_items, too_old,
                   no_date, seen_skip, listed, delivered, merge_in, hVars>>

\* the notice is not sent either: except Exception: pass, then raise
NoticeFails ==
    /\ pc = "except"
    /\ AttemptFails("failed")
    /\ UNCHANGED <<dbVars, run, clock, now_utc, items, idx, new_items, too_old,
                   no_date, seen_skip, sink, listed, delivered, merge_in, hVars>>

Next ==
    \/ StartRun
    \/ ConnectRaises
    \/ InitDbRaises
    \/ GateStorageRaises
    \/ FetchGoogle
    \/ FetchNewsApi
    \/ FetchNewsApiRaises
    \/ MergeAndSort
    \/ GateStep
    \/ GateDone
    \/ SendBatchOk
    \/ SendBatchFails
    \/ HeartbeatOk
    \/ HeartbeatFails
    \/ NoticeOk
    \/ NoticeFails

Init == InitRun

Spec == Init /\ [][Next]_vars

\* the item passes the age filter
Eligible(it) == it.published_utc # None /\ it.published_utc >= cutoff

\* C1: a fingerprint is put on the delivery list of at most one run, and
\* only what is on a run's delivery list is handed to the Sink in that run:
\* once a run marked it, no later run lists or sends it, whether or not the
\* Sink accepted it then.
C1_AtMostOncePerFingerprint ==
    /\ \A p \in listed : \A q \in listed : p[2] = q[2] => p[1] = q[1]
    /\ delivered \subseteq listed
    /\ \A i \in 1..Len(new_items) : <<run, Fp(new_items[i])>> \in listed
    /\ \A m \in 1..Len(sink) :
          sink[m].kind = "update" =>
              \A i \in 1..Len(sink[m].batch) :
                  <<run, Fp(sink[m].batch[i])>> \in delivered

\* the second run meets, fresh enough, a fingerprint the first run marked
\* and failed to send, and skips it
C1_Witness ==
    /\ run = 2
    /\ pc = "done"
    /\ seen_skip >= 1
    /\ \E i \in 1..Len(items) :
          /\ Eligible(items[i])
          /\ <<1, Fp(items[i])>> \in listed
          /\ <<1, Fp(items[i])>> \notin delivered

LatestFirst(its) ==
    \A i, j \in 1..Len(its) : i < j => SortKey(its[i]) >= SortKey(its[j])

\* C2: the gate walks the items latest first and, for each eligible item
\* that is not seen, marks it and appends it to the delivery list in that
\* order; every item of the delivery list has its record in the store, and
\* so has every item of a batch before any attempt to send the batch.
C2_MarkBeforeDispatch ==
    /\ [](\A i \in 1..Len(new_items) :
            LET fp == Fp(new_items[i])
            IN /\ is_seen(fp)
               /\ seen[fp].url = new_items[i].url
               /\ seen[fp].title = new_items[i].title)
    /\ [](pc = "gate" =>
            /\ LatestFirst(items)
            /\ new_items = SelectSeq(SubSeq(items, 1, idx - 1),
                                     LAMBDA it : Eligible(it) /\ <<run, Fp(it)>> \in listed))
    /\ [][(pc = "gate" /\ idx' = idx + 1 /\ Eligible(items[idx])
              /\ ~is_seen(Fp(items[idx])))
            => /\ Fp(items[idx]) \in DOMAIN seen'
               /\ new_items' = Append(new_items, items[idx])]_vars
    /\ [][(pc = "dispatch" /\ (tries' # tries \/ sink' # sink))
            => \A i \in 1..Len(Batch) : is_seen(Fp(Batch[i]))]_vars

\* two items marked and sent, the later one first
C2_Witness ==
    /\ pc = "heartbeat"
    /\ Len(new_items) = 2
    /\ Len(sink) = 2
    /\ new_items[1].published_utc > new_items[2].published_utc
    /\ sink[1].batch = <<new_items[1]>>
    /\ \A i \in 1..2 : is_seen(Fp(new_items[i]))

\* C9: the merge leaves exactly one item for each fingerprint of the items
\* that have a url or a title, each of them one of those items, and so no
\* delivery list holds a fingerprint twice.
C9_MergeOnePerFingerprint ==
    /\ [][(pc = "merge" /\ pc' = "gate") =>
            LET usable == {i \in 1..Len(items) :
                              ~(items[i].url = <<>> /\ items[i].title = <<>>)}
                fps == {Fp(items[i]) : i \in usable}
            IN /\ {Fp(items'[k]) : k \in 1..Len(items')} = fps
               /\ Len(items') = Cardinality(fps)
               /\ \A k \in 1..Len(items') : \E i \in usable : items'[k] = items[i]]_vars
    /\ [](\A i, j \in 1..Len(new_items) :
            i # j => Fp(new_items[i]) # Fp(new_items[j]))

\* both sources supplied an item of one fingerprint: one candidate is left
C9_Witness ==
    /\ pc = "gate"
    /\ Len(merge_in) = 2
    /\ merge_in[1].source # merge_in[2].source
    /\ Fp(merge_in[1]) = Fp(merge_in[2])
    /\ Len(items) = 1

\* C10: every pass of the gate loop gives its item one outcome: no_date
\* when published_utc is absent, else too_old when it is before the cutoff,
\* else eligible (seen or new); only an eligible item is marked or listed.
C10_AgeFilter ==
    /\ [][(pc = "gate" /\ idx' = idx + 1) =>
            LET pub == items[idx].published_utc
            IN /\ pub = None =>
                    /\ no_date' = no_date + 1
                    /\ UNCHANGED <<too_old, seen_skip, new_items, seen, listed>>
               /\ (pub # None /\ pub < now_utc - MAX_AGE_HOURS) =>
                    /\ too_old' = too_old + 1
                    /\ UNCHANGED <<no_date, seen_skip, new_items, seen, listed>>
               /\ (pub # None /\ pub >= now_utc - MAX_AGE_HOURS) =>
                    /\ UNCHANGED <<no_date, too_old>>
                    /\ \/ seen_skip' = seen_skip + 1 /\ UNCHANGED <<new_items, seen>>
                       \/ /\ new_items' = Append(new_items, items[idx])
                          /\ seen_skip' = seen_skip]_vars
    /\ [](\A i \in 1..Len(new_items) :
            /\ new_items[i].published_utc # None
            /\ new_items[i].published_utc >= now_utc - MAX_AGE_HOURS)
    /\ [](pc = "gate" => no_date + too_old + seen_skip + Len(new_items) = idx - 1)

\* the loop is over: one item dated exactly at the cutoff was listed, one
\* older item was counted too old
C10_Witness ==
    /\ pc = "gate"
    /\ idx > Len(items)
    /\ too_old = 1
    /\ Len(new_items) = 1
    /\ new_items[1].published_utc = now_utc - MAX_AGE_HOURS

\* C14: the dispatch of a delivery list ends only when every batch was
\* handed to the Sink, and the run then goes on to the summary heartbeat,
\* also when the send of a batch failed on every attempt.
C14_RunCompletesAfterSendFailure ==
    /\ [][(pc = "dispatch" /\ pc' # "dispatch") => pc' = "heartbeat"]_vars
    /\ [](pc = "heartbeat" => idx >= Len(new_items))

\* C15: the fetch of the second source ends in the merge, with the items of
\* the first source kept, whether it brought items, brought none or failed.
C15_SourceFailureIsolated ==
    [][(pc = "fetch_newsapi" /\ pc' # "fetch_newsapi") =>
          /\ pc' = "merge"
          /\ Len(items') >= Len(items)
          /\ SubSeq(items', 1, Len(items)) = items]_vars

\* C16: when a store operation of a run raises, in init_db or at any pass of
\* the gate loop, no fingerprint the run listed is left in the store and no
\* item of the run was handed to the Sink.
C16_StorageFailureLeavesNothing ==
    /\ [][(pc \in {"idle", "done", "failed"} /\ pc' = "except") =>
            (UNCHANGED <<seen, delivered>>)]_vars
    /\ [][(pc = "gate" /\ pc' = "except") =>
            \A p \in listed :
                p[1] = run => p[2] \notin DOMAIN seen' /\ p \notin delivered']_vars

\* the number of failure notices among the messages
Notices(msgs) == Cardinality({m \in 1..Len(msgs) : msgs[m].kind = "failed"})

\* C17: a run that returns sent the heartbeat as its last message and no
\* failure notice; a run sends at most one failure notice, as its last
\* message and with no heartbeat; and a run ends with an error only out of
\* its attempt to send that notice.
C17_RunOutcome ==
    /\ [](pc = "done" =>
            /\ Len(sink) >= 1
            /\ sink[Len(sink)].kind = "heartbeat"
            /\ Notices(sink) = 0)
    /\ [](Notices(sink) <= 1)
    /\ [](Notices(sink) = 1 =>
            /\ pc = "failed"
            /\ sink[Len(sink)].kind = "failed"
            /\ \A m \in 1..Len(sink) : sink[m].kind # "heartbeat")
    /\ [][(pc # "failed" /\ pc' = "failed") => pc = "except"]_vars

\* the part of C17 about the messages alone
RunMessages ==
    /\ pc = "done" =>
          /\ Len(sink) >= 1
          /\ sink[Len(sink)].kind = "heartbeat"
          /\ Notices(sink) = 0
    /\ Notices(sink) <= 1
    /\ Notices(sink) = 1 =>
          /\ pc = "failed"
          /\ sink[Len(sink)].kind = "failed"
          /\ \A m \in 1..Len(sink) : sink[m].kind # "heartbeat"

\* C18: once the gate loop is over the four counts add up to the number of
\* merged items; the heartbeat reports these counts; and the count of new
\* items is the length of the delivery list and the number of records the
\* run added to the store, one with each item listed.
C18_CounterConservation ==
    /\ [](pc \in {"dispatch", "heartbeat", "done"} =>
            /\ Len(new_items) + seen_skip + too_old + no_date = Len(items)
            /\ Len(new_items) = Cardinality({p \in listed : p[1] = run})
            /\ \A p \in listed : p[1] = run => p[2] \in DOMAIN seen)
    /\ [](\A m \in 1..Len(sink) :
            sink[m].kind = "heartbeat" =>
                /\ sink[m].new + sink[m].seen + sink[m].old + sink[m].no_date
                      = sink[m].fetched
                /\ sink[m].new = Len(new_items)
                /\ sink[m].seen = seen_skip
                /\ sink[m].old = too_old
                /\ sink[m].no_date = no_date
                /\ sink[m].fetched = Len(items))
    /\ [][(pc = "gate" /\ idx' = idx + 1) =>
            /\ Cardinality(DOMAIN seen') - Cardinality(DOMAIN seen)
                  = Len(new_items') - Len(new_items)
            /\ Cardinality(listed') - Cardinality(listed)
                  = Len(new_items') - Len(new_items)]_vars
    /\ [][(pc \in {"fetch_rss", "fetch_newsapi", "merge", "dispatch", "heartbeat"}) =>
            (UNCHANGED <<seen, listed, new_items>>)]_vars

\* the second run reported one new item and one seen item of two merged
C18_Witness ==
    /\ pc = "done"
    /\ run = 2
    /\ sink[Len(sink)].kind = "heartbeat"
    /\ sink[Len(sink)].new = 1
    /\ sink[Len(sink)].seen = 1
    /\ sink[Len(sink)].fetched = 2
    /\ Cardinality(DOMAIN seen) = 2

-----------------------------------------------------------------------------
(* SpecBatch: send_updates_batched on a delivery list, for every batch     *)
(* size; the Sink accepts a batch or the send raises.                      *)

MaxBatchItems == 3
MaxBatchSize == 2

\* items of three fingerprints, all fresh
BatchPool ==
    {Item("GoogleNews", <<"F">>, u, Epoch + p) : u \in {UrlA, UrlB}, p \in 1..MaxBatchItems}
        \cup {Item("NewsAPI", <<>>, UrlB, Epoch + p) : p \in 1..MaxBatchItems}

\* the lists the gate loop can leave: latest first, no fingerprint twice
DeliveryLists ==
    {l \in SeqsUpTo(BatchPool, MaxBatchItems) :
        /\ LatestFirst(l)
        /\ \A i, j \in 1..Len(l) : i # j => Fp(l[i]) # Fp(l[j])}

\* the loop of send_updates_batched that sends once the batch is over size
RECURSIVE BatchesFoldLate(_, _, _, _)
BatchesFoldLate(updates, batch, size, out) ==
    IF updates = <<>>
    THEN IF batch # <<>> THEN Append(out, batch) ELSE out
    ELSE LET b == Append(batch, Head(updates))
         IN IF Len(b) > size
            THEN BatchesFoldLate(Tail(updates), <<>>, size, Append(out, b))
            ELSE BatchesFoldLate(Tail(updates), b, size, out)

\* the loop of send_updates_batched: batch is the list being filled, out
\* the batches handed to _send_one_batch so far; size is MAX_ITEMS_PER_BATCH
RECURSIVE BatchesFold(_, _, _, _)
BatchesFold(updates, batch, size, out) ==
    IF updates = <<>>
    THEN IF batch # <<>> THEN Append(out, batch) ELSE out
    ELSE LET b == Append(batch, Head(updates))
         IN IF Len(b) >= size
            THEN BatchesFold(Tail(updates), <<>>, size, Append(out, b))
            ELSE BatchesFold(Tail(updates), b, size, out)

\* the batches send_updates_batched hands to _send_one_batch, in order
Batches(updates, size) == BatchesFold(updates, <<>>, size, <<>>)

InitBatch ==
    /\ DbIdle
    /\ RunIdle
    /\ clock = Epoch
    /\ h_arg \in [kind : {"batch"}, updates : DeliveryLists, size : 1..MaxBatchSize]
    /\ h_ret = NoRet

\* send_updates_batched(session, updates): "if not updates: return"
CallSendUpdatesBatched ==
    /\ h_arg.kind = "batch"
    /\ pc = "idle"
    /\ pc' = IF h_arg.updates = <<>> THEN "returned" ELSE "send"
    /\ idx' = 0
    /\ UNCHANGED <<dbVars, run, clock, now_utc, items, new_items, too_old, no_date,
                   seen_skip, tries, sink, listed, delivered, merge_in, hVars>>

\* _send_one_batch of the next batch: the Sink accepts it
BatchSendOk ==
    /\ h_arg.kind = "batch"
    /\ pc = "send"
    /\ LET bs == Batches(h_arg.updates, h_arg.size)
       IN /\ sink' = Append(sink, [kind |-> "update", batch |-> bs[idx + 1]])
          /\ idx' = idx + 1
          /\ pc' = IF idx + 1 = Len(bs) THEN "returned" ELSE "send"
    /\ UNCHANGED <<dbVars, run, clock, now_utc, items, new_items, too_old, no_date,
                   seen_skip, tries, listed, delivered, merge_in, hVars>>

\* _send_one_batch of the next batch: telegram_send raises, and so does
\* send_updates_batched
BatchSendRaises ==
    /\ h_arg.kind = "batch"
    /\ pc = "send"
    /\ pc' = "raised"
    /\ UNCHANGED <<dbVars, run, clock, now_utc, items, idx, new_items, too_old,
                   no_date, seen_skip, tries, sink, listed, delivered, merge_in, hVars>>

NextBatch == CallSendUpdatesBatched \/ BatchSendOk \/ BatchSendRaises

SpecBatch == InitBatch /\ [][NextBatch]_vars

\* the items the Sink accepted, in the order it accepted them
RECURSIVE SinkItems(_)
SinkItems(msgs) ==
    IF msgs = <<>> THEN <<>> ELSE Head(msgs).batch \o SinkItems(Tail(msgs))

\* C11: every batch sent holds between 1 and B items, the batches sent are
\* the delivery list cut in order (so the items reach the Sink latest
\* first), and when send_updates_batched returns there were ceil(n/B) sends
\* that hold every item of the list once.
C11_OrderedBatching ==
    LET n == Len(h_arg.updates)
        B == h_arg.size
        got == SinkItems(sink)
    IN /\ \A m \in 1..Len(sink) :
             /\ sink[m].kind = "update"
             /\ Len(sink[m].batch) >= 1
             /\ Len(sink[m].batch) <= B
       /\ Len(got) <= n
       /\ got = SubSeq(h_arg.updates, 1, Len(got))
       /\ LatestFirst(got)
       /\ Len(sink) = idx
       /\ pc = "returned" =>
             /\ got = h_arg.updates
             /\ Len(sink) = (n + B - 1) \div B

\* batch size 1 and three items of three timestamps: three sends of one
\* item each, the latest first
C11_Witness ==
    /\ pc = "returned"
    /\ h_arg.size = 1
    /\ Len(h_arg.updates) = 3
    /\ Len(sink) = 3
    /\ \A m \in 1..3 : sink[m].batch = <<h_arg.updates[m]>>
    /\ sink[1].batch[1].published_utc > sink[2].batch[1].published_utc
    /\ sink[2].batch[1].published_utc > sink[3].batch[1].published_utc

-----------------------------------------------------------------------------
(* SpecRetry: one call of request_with_retry, attempt by attempt, against  *)
(* a transport that answers or raises as it likes.                         *)

MaxTries == 3

\* what session.request raises
TransportErrors == {"Timeout", "ConnectionError"}

\* the callers: HEAD and GET of resolve_final_url, GET of fetch_newsapi,
\* POST of telegram_send
Methods == {"HEAD", "GET", "POST"}

InitRetry ==
    /\ DbIdle
    /\ RunIdle
    /\ clock = Epoch
    /\ h_arg \in [kind : {"retry"}, method : Methods, max_tries : 1..MaxTries]
    /\ h_ret = NoRet

\* last_err = None; for i in range(max_tries): tries is i
CallRequestWithRetry ==
    /\ h_arg.kind = "retry"
    /\ pc = "idle"
    /\ pc' = "request"
    /\ tries' = 0
    /\ h_ret' = [op |-> "request_with_retry", log |-> <<>>, slept |-> <<>>,
                 last_err |-> "None", result |-> "none"]
    /\ UNCHANGED <<dbVars, run, clock, now_utc, items, idx, new_items, too_old,
                   no_date, seen_skip, sink, listed, delivered, merge_in, h_arg>>

\* a request_with_retry that goes on with the loop after a response
RequestReturnsAndRetries ==
    /\ h_arg.kind = "retry"
    /\ pc = "request"
    /\ h_ret' = [h_ret EXCEPT !.log = Append(@, "ok"), !.result = "response"]
    /\ sink' = IF h_arg.method = "POST" THEN Append(sink, [kind |-> "text"]) ELSE sink
    /\ tries' = tries + 1
    /\ pc' = IF tries + 1 < h_arg.max_tries THEN "request" ELSE "returned"
    /\ UNCHANGED <<dbVars, run, clock, now_utc, items, idx, new_items, too_old,
                   no_date, seen_skip, listed, delivered, merge_in, h_arg>>

\* return session.request(method, url, ...): the transport answers; a POST
\* that is answered has handed its text to the Sink
RequestReturns ==
    /\ h_arg.kind = "retry"
    /\ pc = "request"
    /\ h_ret' = [h_ret EXCEPT !.log = Append(@, "ok"), !.result = "response"]
    /\ sink' = IF h_arg.method = "POST" THEN Append(sink, [kind |-> "text"]) ELSE sink
    /\ pc' = "returned"
    /\ UNCHANGED <<dbVars, run, clock, now_utc, items, idx, new_items, too_old,
                   no_date, seen_skip, tries, listed, delivered, merge_in, h_arg>>

\* a request_with_retry that waits after every failed attempt and tries again
RequestRaisesNoBound ==
    /\ h_arg.kind = "retry"
    /\ pc = "request"
    /\ \E e \in TransportErrors :
          h_ret' = [h_ret EXCEPT !.log = Append(@, e), !.last_err = e]
    /\ pc' = "sleep"
    /\ UNCHANGED <<dbVars, run, clock, now_utc, items, idx, new_items, too_old,
                   no_date, seen_skip, tries, sink, listed, delivered, merge_in, h_arg>>

\* except Exception as e: last_err = e; then the backoff when
\* i < max_tries - 1, else the loop is over and "raise last_err"
RequestRaises ==
    /\ h_arg.kind = "retry"
    /\ pc = "request"
    /\ \E e \in TransportErrors :
          h_ret' = [h_ret EXCEPT !.log = Append(@, e), !.last_err = e,
                                 !.result = IF tries < h_arg.max_tries - 1
                                            THEN @ ELSE e]
    /\ pc' = IF tries < h_arg.max_tries - 1 THEN "sleep" ELSE "raised"
    /\ UNCHANGED <<dbVars, run, clock, now_utc, items, idx, new_items, too_old,
                   no_date, seen_skip, tries, sink, listed, delivered, merge_in, h_arg>>

\* time.sleep(backoff_s * (2 ** i)), then the next pass of the loop
Backoff ==
    /\ h_arg.kind = "retry"
    /\ pc = "sleep"
    /\ h_ret' = [h_ret EXCEPT !.slept = Append(@, tries)]
    /\ tries' = tries + 1
    /\ pc' = "request"
    /\ UNCHANGED <<dbVars, run, clock, now_utc, items, idx, new_items, too_old,
                   no_date, seen_skip, sink, listed, delivered, merge_in, h_arg>>

NextRetry == CallRequestWithRetry \/ RequestReturns \/ RequestRaises \/ Backoff

\* the call is one sequential piece of code: each of its steps is taken (a
\* request ends by its timeout, a sleep by its duration)
SpecRetry == InitRetry /\ [][NextRetry]_vars /\ WF_vars(NextRetry)

\* the attempts of the call so far
Attempts == IF h_ret.op = "request_with_retry" THEN h_ret.log ELSE <<>>

\* C12: a call that returns made k failed attempts, k < max_tries, and then
\* one answered attempt, the last of the call; it returns that response, and
\* a POST was handed to the Sink once, by that attempt and by no other.
C12_RetryThenSuccess ==
    /\ Len(sink) = Cardinality({i \in 1..Len(Attempts) :
                                   Attempts[i] = "ok" /\ h_arg.method = "POST"})
    /\ \A i \in 1..Len(Attempts) : Attempts[i] = "ok" => i = Len(Attempts)
    /\ pc = "returned" =>
          /\ Len(Attempts) >= 1
          /\ Len(Attempts) <= h_arg.max_tries
          /\ Attempts[Len(Attempts)] = "ok"
          /\ \A i \in 1..(Len(Attempts) - 1) : Attempts[i] \in TransportErrors
          /\ h_ret.result = "response"
          /\ tries = Len(Attempts) - 1
          /\ h_arg.method = "POST" => Len(sink) = 1

\* two failed attempts, then the third answered: one delivery
C12_Witness ==
    /\ pc = "returned"
    /\ h_arg.method = "POST"
    /\ h_arg.max_tries = 3
    /\ Len(Attempts) = 3
    /\ Attempts[1] \in TransportErrors
    /\ Attempts[2] \in TransportErrors
    /\ Attempts[3] = "ok"
    /\ Len(sink) = 1

\* C13: a call makes at most max_tries attempts and ends; when max_tries
\* attempts failed it raises the error of the last one; it waits once after
\* each failed attempt but the last of max_tries, with a doubling exponent.
C13_BoundedRetry ==
    /\ [](Len(Attempts) <= h_arg.max_tries)
    /\ [](pc = "raised" =>
            /\ Len(Attempts) = h_arg.max_tries
            /\ \A i \in 1..Len(Attempts) : Attempts[i] \in TransportErrors
            /\ h_ret.result = Attempts[Len(Attempts)]
            /\ h_ret.result = h_ret.last_err
            /\ Len(h_ret.slept) = h_arg.max_tries - 1)
    /\ [](pc \in {"request", "sleep", "returned", "raised"} =>
            /\ Len(h_ret.slept) <= h_arg.max_tries - 1
            /\ \A i \in 1..Len(h_ret.slept) : h_ret.slept[i] = i - 1
            /\ Len(h_ret.slept) =
                  (IF pc = "request" THEN Len(Attempts) ELSE Len(Attempts) - 1))
    /\ [](pc = "returned" =>
            h_ret.result = "response" /\ Attempts[Len(Attempts)] = "ok")
    /\ <>(pc \in {"returned", "raised"})

\* three attempts failed, the last by another error than the one before:
\* that error is raised, after two waits
C13_Witness ==
    /\ pc = "raised"
    /\ h_arg.max_tries = 3
    /\ Attempts = <<"Timeout", "Timeout", "ConnectionError">>
    /\ h_ret.result = "ConnectionError"
    /\ h_ret.slept = <<0, 1>>

-----------------------------------------------------------------------------
(* SpecMig: init_db on an old-layout database, run to its end or stopped   *)
(* after one of its statements, and init_db called again.                  *)

\* the statements of the migration after which init_db may stop
MigStatements == {"rename", "create", "insert"}

\* init_db stopped after statement at (an error of the storage, or the end
\* of the process).  ALTER TABLE and CREATE TABLE run outside a transaction
\* and are kept; the inserts wait for con.commit() and are undone.
init_db_stopped(at) ==
    /\ schema = "old"
    /\ schema' = IF at = "rename" THEN "none" ELSE "new"
    /\ seen_old' = TRUE
    /\ seen' = <<>>
    /\ UNCHANGED old_rows

InitMig ==
    /\ RunIdle
    /\ clock = Epoch
    /\ seen = <<>>
    /\ seen_old = FALSE
    /\ schema = "old"
    /\ old_rows \in OldTables
    /\ h_arg = [kind |-> "mig"]
    /\ h_ret = NoRet

\* init_db returns
MigInitDb ==
    /\ h_arg.kind = "mig"
    /\ init_db
    /\ h_ret' = [op |-> "init_db", before |-> schema, ended |-> "returned"]
    /\ UNCHANGED <<runVars, h_arg>>

\* init_db does not get to its end
MigInitDbStopped ==
    /\ h_arg.kind = "mig"
    /\ \E at \in MigStatements :
          /\ init_db_stopped(at)
          /\ h_ret' = [op |-> "init_db", before |-> schema, ended |-> at]
    /\ UNCHANGED <<runVars, h_arg>>

NextMig == MigInitDb \/ MigInitDbStopped

SpecMig == InitMig /\ [][NextMig]_vars

\* C19: whenever init_db has returned on a store that held the old layout,
\* also after an earlier init_db was stopped partway, every old record has
\* its record in the current-layout table, with the first_seen_utc kept for
\* its fingerprint.
C19_MigrationSurvivesInterruption ==
    (h_ret.op = "init_db" /\ h_ret.ended = "returned") =>
        \A i \in 1..Len(old_rows) :
            LET fp == make_fingerprint(old_rows[i].url, <<>>)
            IN /\ fp \in DOMAIN seen
               /\ seen[fp].first_seen_utc = FirstRowOf(old_rows, fp).first_seen_utc

\* the same for an init_db that was never stopped
MigrationUninterrupted ==
    (h_ret.op = "init_db" /\ h_ret.ended = "returned" /\ h_ret.before = "old") =>
        \A i \in 1..Len(old_rows) :
            LET fp == make_fingerprint(old_rows[i].url, <<>>)
            IN /\ fp \in DOMAIN seen
               /\ seen[fp].first_seen_utc = FirstRowOf(old_rows, fp).first_seen_utc

-----------------------------------------------------------------------------
(* SpecChunk: chunk_text applied to the text _send_one_batch renders, for  *)
(* every limit.  A text is a sequence of characters; "\n" ends a line.     *)

MaxChunkItems == 2
MaxLineLen == 2
MaxLimit == 14

\* a line of n characters
Chars(n) == [i \in 1..n |-> "x"]

\* "\n".join(lines)
RECURSIVE Join(_)
Join(lines) ==
    IF lines = <<>> THEN <<>>
    ELSE IF Len(lines) = 1 THEN Head(lines)
    ELSE Head(lines) \o <<"\n">> \o Join(Tail(lines))

\* the lines _send_one_batch builds: the header, then for each item of the
\* batch an empty line and its title, time, source, tags and link lines
\* (the title and the link as long as the item makes them)
RECURSIVE ItemLines(_)
ItemLines(batch) ==
    IF batch = <<>> THEN <<>>
    ELSE <<<<>>, Chars(Head(batch).title), Chars(1), Chars(1), Chars(1),
           Chars(Head(batch).link)>> \o ItemLines(Tail(batch))

RenderLines(batch) == <<Chars(1)>> \o ItemLines(batch)

\* text.splitlines(True): the lines with their line ends
RECURSIVE SplitLines(_)
SplitLines(text) ==
    IF text = <<>> THEN <<>>
    ELSE LET i == IndexOf(text, "\n", 1)
         IN IF i = 0 THEN <<text>>
            ELSE <<SubSeq(text, 1, i)>> \o SplitLines(SubSeq(text, i + 1, Len(text)))

\* the loop of chunk_text over the lines
RECURSIVE ChunkFold(_, _, _, _)
ChunkFold(lines, cur, chunks, limit) ==
    IF lines = <<>>
    THEN IF cur # <<>> THEN Append(chunks, cur) ELSE chunks
    ELSE IF Len(cur) + Len(Head(lines)) > limit
    THEN ChunkFold(Tail(lines), Head(lines), Append(chunks, cur), limit)
    ELSE ChunkFold(Tail(lines), cur \o Head(lines), chunks, limit)

chunk_text(text, limit) ==
    IF Len(text) <= limit THEN <<text>>
    ELSE ChunkFold(SplitLines(text), <<>>, <<>>, limit)

\* the batches _send_one_batch may get: the lengths of the title and link
\* lines of each item
ChunkBatches ==
    SeqsUpTo([title : 1..MaxLineLen, link : 1..MaxLineLen], MaxChunkItems) \ {<<>>}

InitChunk ==
    /\ DbIdle
    /\ RunIdle
    /\ clock = Epoch
    /\ h_arg \in [kind : {"chunk"}, batch : ChunkBatches, limit : 1..MaxLimit]
    /\ h_ret = NoRet

\* text = "\n".join(lines); chunk_text(text)
ApplyChunkText ==
    /\ h_arg.kind = "chunk"
    /\ h_ret.op = "none"
    /\ LET text == Join(RenderLines(h_arg.batch))
       IN h_ret' = [op |-> "chunk_text", text |-> text,
                    parts |-> chunk_text(text, h_arg.limit)]
    /\ UNCHANGED <<dbVars, runVars, h_arg>>

NextChunk == ApplyChunkText

SpecChunk == InitChunk /\ [][NextChunk]_vars

\* the parts one after the other
RECURSIVE Concat(_)
Concat(parts) ==
    IF parts = <<>> THEN <<>> ELSE Head(parts) \o Concat(Tail(parts))

\* the place in the text of the first character of line n of lines
RECURSIVE LineStart(_, _)
LineStart(lines, n) ==
    IF n = 1 THEN 1 ELSE LineStart(lines, n - 1) + Len(lines[n - 1]) + 1

\* the places in the text of the lines of item j (title to link), with the
\* line end of the link line when another item follows
ItemSpan(batch, j) ==
    LET lines == RenderLines(batch)
        first == LineStart(lines, 6 * j - 3)
        last == LineStart(lines, 6 * j + 1) + Len(lines[6 * j + 1]) - 1
    IN first..(IF j < Len(batch) THEN last + 1 ELSE last)

\* the places in the text that part k holds
PartSpan(parts, k) ==
    LET before == Len(Concat(SubSeq(parts, 1, k - 1)))
    IN (before + 1)..(before + Len(parts[k]))

\* C20: the parts of chunk_text make up the text in order; every part is
\* non-empty and no longer than the limit; every part but the last ends
\* with a line end; the lines of an item that fit within the limit are in
\* one part; and a text no longer than the limit is one part.
C20_ChunkText ==
    h_ret.op = "chunk_text" =>
        LET text == h_ret.text
            parts == h_ret.parts
            limit == h_arg.limit
        IN /\ Concat(parts) = text
           /\ \A k \in 1..Len(parts) :
                 /\ parts[k] # <<>>
                 /\ Len(parts[k]) <= limit
           /\ \A k \in 1..(Len(parts) - 1) :
                 parts[k] # <<>> => parts[k][Len(parts[k])] = "\n"
           /\ \A j \in 1..Len(h_arg.batch) :
                 Cardinality(ItemSpan(h_arg.batch, j)) <= limit =>
                     \E k \in 1..Len(parts) :
                         ItemSpan(h_arg.batch, j) \subseteq PartSpan(parts, k)
           /\ Len(text) <= limit => parts = <<text>>

\* what of C20 chunk_text does keep: the parts make up the text, the cuts
\* are behind line ends, a text within the limit is one part, and a part
\* is empty or over the limit only as a whole line that is over the limit
ChunkTextKeepsLines ==
    h_ret.op = "chunk_text" =>
        LET text == h_ret.text
            parts == h_ret.parts
            limit == h_arg.limit
        IN /\ Concat(parts) = text
           /\ \A k \in 1..(Len(parts) - 1) :
                 parts[k] # <<>> => parts[k][Len(parts[k])] = "\n"
           /\ \A k \in 1..Len(parts) :
                 /\ parts[k] = <<>> => k = 1
                 /\ Len(parts[k]) > limit => Len(SplitLines(parts[k])) = 1
           /\ Len(text) <= limit => parts = <<text>>

\* the parts are within the limit and not empty, and still the lines of an
\* item that fits are in two parts
ItemCutInTwo ==
    /\ h_ret.op = "chunk_text"
    /\ \A k \in 1..Len(h_ret.parts) :
          h_ret.parts[k] # <<>> /\ Len(h_ret.parts[k]) <= h_arg.limit
    /\ \E j \in 1..Len(h_arg.batch) :
          /\ Cardinality(ItemSpan(h_arg.batch, j)) <= h_arg.limit
          /\ \A k \in 1..Len(h_ret.parts) :
                ~(ItemSpan(h_arg.batch, j) \subseteq PartSpan(h_ret.parts, k))

====
